---- MODULE Spec2Model ----
(***************************************************************************)
(* openconnect-sso: the session-establishment run, from the command-line   *)
(* entry point cli.main through app.run / app._run to the process exit.    *)
(* One behaviour of the model is one run of the program.                   *)
(***************************************************************************)
EXTENDS Integers, Sequences, FiniteSets, TLC

\* ------------------------------------------------------------------ bounds
\* Longest list of pass-through arguments given on the command line.
MaxArgs == 2
\* Number of distinct profiles the discovery collaborator can return.
MaxProfiles == 2

\* ------------------------------------------------------- optional values
\* Python's None and a present value; every optional field holds one of them.
None == <<>>
Some(x) == <<x>>
Val(o) == o[1]
\* Truth value of an optional string (None and "" are falsy).
Truthy(o) == o # None /\ o # Some("")

\* --------------------------------------------------------------- exit codes
ExitNoProfileFound == 17
\* Variant: both resolution failures return the same code.
ExitNoProfileSelected_reused == ExitNoProfileFound
ExitNoProfileSelected == 18
\* argparse's parser.error exits with status 2
ExitUsage == 2
\* an exception that leaves main unhandled ends the interpreter with status 1
ExitUnhandled == 1

\* ------------------------------------------------------------ data model
\* config.HostProfile(address, user_group): the explicit-server constructor.
HostProfile(address, user_group) ==
    [address |-> address, user_group |-> user_group, name |-> ""]

\* HostProfile.vpn_url: the endpoint URL derived from address and user group.
vpn_url(p) ==
    "https://" \o p.address \o (IF p.user_group = "" THEN "" ELSE "/" \o p.user_group)

\* Credentials(user) with the prompted password assigned afterwards.
Credentials(username, password) == [username |-> username, password |-> password]

\* The stored default a configuration file may hold.
StoredProfile == [address |-> "stored.example.com", user_group |-> "", name |-> "stored"]
StoredCredentials == Credentials("bob", "stored-secret")

\* What profile discovery can return: an ordered collection without repeats.
ProfileNames == <<"profile-1", "profile-2", "profile-3", "profile-4">>
DiscoveredProfile(i) ==
    [address |-> "vpn.example.com", user_group |-> "", name |-> ProfileNames[i]]
RECURSIVE ProfilePrefix(_)
ProfilePrefix(n) ==
    IF n = 0 THEN <<>> ELSE Append(ProfilePrefix(n - 1), DiscoveredProfile(n))
ProfileCollections == {ProfilePrefix(n) : n \in 0..MaxProfiles}

\* Pass-through arguments: sequences over two flags, up to MaxArgs long.
PassFlags == {"--verbose", "--no-dtls"}
RECURSIVE SeqsUpTo(_, _)
SeqsUpTo(S, n) ==
    IF n = 0 THEN {<<>>}
    ELSE LET shorter == SeqsUpTo(S, n - 1)
         IN  shorter \cup {Append(s, x) : s \in {t \in shorter : Len(t) = n - 1}, x \in S}

\* The namespace argparse produces (create_argparser), restricted to the
\* fields that decide the control flow.
ArgsSet ==
    [profile_path : {None, Some("/etc/profiles")},
     use_profile_selector : BOOLEAN,
     server : {None, Some("gw.example.com")},
     usergroup : {"", "staff"},
     headless : BOOLEAN,
     user : {None, Some("alice")},
     show_version : BOOLEAN,
     openconnect_args : SeqsUpTo(PassFlags, MaxArgs)]

\* The Configuration the store can hold when the run starts.
ConfigSet ==
    [credentials : {None, Some(StoredCredentials)},
     default_profile : {None, Some(StoredProfile)}]

\* What the authentication capability can answer on success.
AuthResponses ==
    [session_token : {"abc123", "t"},
     server_cert_hash : {"sha256:h"}]

\* Exceptions of the run.
AuthFailures == {"AuthResponseError", "Terminated", "HTTPError"}
\* Variant: run has no except clause for KeyboardInterrupt.
HandledExceptions_auth_only == AuthFailures
HandledExceptions == {"KeyboardInterrupt"} \cup AuthFailures

VARIABLES
    pc,              \* the position of the run
    argv,            \* the command line as the user gave it
    args,            \* the namespace parsed from it (main may set profile_path)
    path_exists,     \* whether /opt/cisco/anyconnect/profile exists
    store,           \* the Configuration Store's durable content
    cfg,             \* the Configuration _run holds (None before config.load)
    credentials,     \* _run's local credentials
    profiles,        \* the Profile Collection discovery returned
    selected_profile,\* _run's local selected_profile (None until resolved)
    auth_response,   \* _run's local auth_response (None until authenticated)
    auth_call,       \* the arguments authenticate_to was called with (None: not called)
    proc,            \* the child process: started, command line, stdin, waited, exit status
    sigwinch,        \* whether a SIGWINCH handler is registered on the loop
    retval,          \* the value _run / run / main returns (None: no value)
    raised,          \* the exception raised inside _run (None: none)
    exit_code,       \* the process exit status (None while running)
    stdout,          \* the documents printed to standard output
    log,             \* the log lines emitted, in order
    calls            \* how often each collaborator was called

vars == <<pc, argv, args, path_exists, store, cfg, credentials, profiles, selected_profile,
          auth_response, auth_call, proc, sigwinch, retval, raised, exit_code, stdout, log,
          calls>>

NoProc ==
    [started |-> FALSE, command_line |-> <<>>, stdin |-> <<>>, stdin_flushed |-> FALSE,
     stdin_closed |-> FALSE, waiting |-> FALSE, status |-> None]

NoCalls ==
    [load |-> 0, save |-> 0, getpass |-> 0, get_profiles |-> 0, select_profile |-> 0,
     authenticate |-> 0, spawn |-> 0]

Count(c, what) == [c EXCEPT ![what] = @ + 1]

Logged(level, msg) == Append(log, [level |-> level, msg |-> msg])

Init ==
    /\ pc = "main"
    /\ argv \in ArgsSet
    /\ args = argv
    /\ path_exists \in BOOLEAN
    /\ store \in ConfigSet
    /\ cfg = None
    /\ credentials = None
    /\ profiles = <<>>
    /\ selected_profile = None
    /\ auth_response = None
    /\ auth_call = None
    /\ proc = NoProc
    /\ sigwinch = FALSE
    /\ retval = None
    /\ raised = None
    /\ exit_code = None
    /\ stdout = <<>>
    /\ log = <<>>
    /\ calls = NoCalls

\* ------------------------------------------------------------- cli.main
\* Variant: the test forgets --usergroup.
MutuallyExclusive_server_only(a) ==
    (Truthy(a.profile_path) \/ a.use_profile_selector) /\ Truthy(a.server)

\* --profile/--profile-selector together with --server/--usergroup.
MutuallyExclusive(a) ==
    (Truthy(a.profile_path) \/ a.use_profile_selector)
        /\ (Truthy(a.server) \/ a.usergroup # "")

\* The left operands of the second test: only then is config.load() evaluated.
NeedsStoredDefault(a) == ~Truthy(a.profile_path) /\ ~Truthy(a.server)

\* No profile path, no server and no stored default.
NoTarget(a, st) == NeedsStoredDefault(a) /\ st.default_profile = None

\* Variant: the fallback directory is found but args.profile_path is not set.
WithFallbackPath_unset(a, st, pe) == a

\* The namespace after the fallback to the AnyConnect profile directory.
WithFallbackPath(a, st, pe) ==
    IF NoTarget(a, st) /\ pe
    THEN [a EXCEPT !.profile_path = Some("/opt/cisco/anyconnect/profile")]
    ELSE a

\* The three parser.error calls of main, in program order.
UsageError(a, st, pe) ==
    \/ MutuallyExclusive(a)
    \/ NoTarget(a, st) /\ ~pe
    \/ a.use_profile_selector /\ ~Truthy(WithFallbackPath(a, st, pe).profile_path)

main ==
    /\ pc = "main"
    /\ IF args.show_version
       THEN /\ stdout' = Append(stdout, [version |-> "Version:"])
            /\ pc' = "sys_exit"
            /\ UNCHANGED <<args, exit_code, calls>>
       ELSE /\ calls' = IF ~MutuallyExclusive(args) /\ NeedsStoredDefault(args)
                        THEN Count(calls, "load") ELSE calls
            /\ IF UsageError(args, store, path_exists)
               THEN /\ exit_code' = Some(ExitUsage)
                    /\ pc' = "done"
                    /\ UNCHANGED args
               ELSE /\ args' = WithFallbackPath(args, store, path_exists)
                    /\ pc' = "run"
                    /\ UNCHANGED exit_code
            /\ UNCHANGED stdout
    /\ UNCHANGED <<argv, path_exists, store, cfg, credentials, profiles, selected_profile,
                   auth_response, auth_call, proc, sigwinch, retval, raised, log>>

\* -------------------------------------------------------------- app.run
\* configure_logger, the event loop, and the call of _run.
run ==
    /\ pc = "run"
    /\ pc' = "load_config"
    /\ UNCHANGED <<argv, args, path_exists, store, cfg, credentials, profiles, selected_profile,
                   auth_response, auth_call, proc, sigwinch, retval, raised, exit_code, stdout, log,
                   calls>>

\* ------------------------------------------------------------- app._run
LoadConfig ==
    /\ pc = "load_config"
    /\ cfg' = Some(store)
    /\ calls' = Count(calls, "load")
    /\ pc' = "resolve_credentials"
    /\ UNCHANGED <<argv, args, path_exists, store, credentials, profiles, selected_profile,
                   auth_response, auth_call, proc, sigwinch, retval, raised, exit_code, stdout, log>>

\* Variant: a username on the command line is tested before the stored ones.
ResolvedCredentials_user_first(c, a, password) ==
    IF Truthy(a.user) THEN Some(Credentials(Val(a.user), password))
    ELSE c.credentials

\* The credentials _run passes on: stored ones, else prompted ones, else none.
ResolvedCredentials(c, a, password) ==
    IF c.credentials # None THEN c.credentials
    ELSE IF Truthy(a.user) THEN Some(Credentials(Val(a.user), password))
    ELSE None

Prompts(c, a) == c.credentials = None /\ Truthy(a.user)

ResolveCredentials ==
    /\ pc = "resolve_credentials"
    /\ \E password \in {"typed-secret"} :
         /\ credentials' = ResolvedCredentials(Val(cfg), args, password)
         /\ cfg' = IF Prompts(Val(cfg), args)
                   THEN Some([Val(cfg) EXCEPT !.credentials = credentials'])
                   ELSE cfg
    /\ calls' = IF Prompts(Val(cfg), args) THEN Count(calls, "getpass") ELSE calls
    /\ pc' = "resolve_profile"
    /\ UNCHANGED <<argv, args, path_exists, store, profiles, selected_profile, auth_response, auth_call,
                   proc, sigwinch, retval, raised, exit_code, stdout, log>>

\* Variant: the emptiness test is missing.
NoProfiles_never(found) == FALSE

\* "if not profiles": discovery found nothing.
NoProfiles(found) == found = <<>>

\* Variant: the test for a cancelled dialog is missing.
NoSelection_never(selection) == FALSE

\* "if not selected_profile": the dialog was cancelled.
NoSelection(selection) == selection = None

\* Variant: a supplied profile path is tested before the stored default.
ResolveBranch_path_first(a, c) ==
    IF a.use_profile_selector \/ Truthy(a.profile_path)
    THEN "discover"
    ELSE IF c.default_profile # None /\ ~Truthy(a.server)
    THEN "default"
    ELSE IF Truthy(a.server)
    THEN "server"
    ELSE "error"

\* Variant: the first test forgets "or args.server".
ResolveBranch_default_first(a, c) ==
    IF c.default_profile # None /\ ~a.use_profile_selector
    THEN "default"
    ELSE IF a.use_profile_selector \/ Truthy(a.profile_path)
    THEN "discover"
    ELSE IF Truthy(a.server)
    THEN "server"
    ELSE "error"

\* Which branch of the if/elif chain of _run decides the profile.
ResolveBranch(a, c) ==
    IF c.default_profile # None /\ ~(a.use_profile_selector \/ Truthy(a.server))
    THEN "default"
    ELSE IF a.use_profile_selector \/ Truthy(a.profile_path)
    THEN "discover"
    ELSE IF Truthy(a.server)
    THEN "server"
    ELSE "error"

\* The profile the branches without interaction resolve to.
DirectProfile(a, c) ==
    IF ResolveBranch(a, c) = "default" THEN c.default_profile
    ELSE Some(HostProfile(Val(a.server), a.usergroup))

ResolveProfile ==
    /\ pc = "resolve_profile"
    /\ LET branch == ResolveBranch(args, Val(cfg)) IN
       CASE branch \in {"default", "server"} ->
              /\ selected_profile' = DirectProfile(args, Val(cfg))
              /\ pc' = "persist"
              /\ UNCHANGED <<profiles, retval, raised, log, calls>>
         [] branch = "discover" /\ args.profile_path = None ->
              \* Path(None) raises TypeError
              /\ raised' = Some("TypeError")
              /\ pc' = "run_except"
              /\ UNCHANGED <<profiles, selected_profile, retval, log, calls>>
         [] branch = "discover" /\ args.profile_path # None ->
              \E found \in ProfileCollections :
                /\ profiles' = found
                /\ calls' = Count(calls, "get_profiles")
                /\ IF NoProfiles(found)
                   THEN /\ log' = Logged("error", "No profile found")
                        /\ retval' = Some(ExitNoProfileFound)
                        /\ pc' = "run_except"
                   ELSE /\ pc' = "select_profile"
                        /\ UNCHANGED <<log, retval>>
                /\ UNCHANGED <<selected_profile, raised>>
         [] OTHER ->
              /\ raised' = Some("ValueError")
              /\ pc' = "run_except"
              /\ UNCHANGED <<profiles, selected_profile, retval, log, calls>>
    /\ UNCHANGED <<argv, args, path_exists, store, cfg, credentials, auth_response, auth_call, proc,
                   sigwinch, exit_code, stdout>>

\* select_profile up to its await: the dialog is shown; while it runs the
\* application holds a SIGWINCH handler on the event loop.
select_profile ==
    /\ pc = "select_profile"
    /\ calls' = Count(calls, "select_profile")
    /\ sigwinch' = TRUE
    /\ pc' = "selecting"
    /\ UNCHANGED <<argv, args, path_exists, store, cfg, credentials, profiles, selected_profile,
                   auth_response, auth_call, proc, retval, raised, exit_code, stdout, log>>

\* What the dialog can yield: one of the listed profiles, or None on cancel.
Selections(list) == {None} \cup {Some(list[i]) : i \in 1..Len(list)}

\* Variant: the handler is removed only after "if not selection: return".
HandlerAfterSelection_kept_on_cancel(selection) == selection = None

\* Whether a SIGWINCH handler is still registered when select_profile
\* returns `selection`: remove_signal_handler runs before either return.
HandlerAfterSelection(selection) == FALSE

\* The dialog completes; select_profile removes the handler and returns the
\* selection, and _run ends with 18 when there is none.
selection_made ==
    /\ pc = "selecting"
    /\ \E selection \in Selections(profiles) :
         /\ sigwinch' = HandlerAfterSelection(selection)
         /\ selected_profile' = selection
         /\ IF NoSelection(selection)
            THEN /\ log' = Logged("error", "No profile selected")
                 /\ retval' = Some(ExitNoProfileSelected)
                 /\ pc' = "run_except"
            ELSE /\ log' = Logged("info", "Selected profile")
                 /\ pc' = "persist"
                 /\ UNCHANGED retval
    /\ UNCHANGED <<argv, args, path_exists, store, cfg, credentials, profiles, auth_response, auth_call,
                   proc, raised, exit_code, stdout, calls>>

\* Variant: the default is set in memory but config.save is not called here.
PersistConfig_unsaved ==
    /\ pc = "persist"
    /\ cfg' = Some([Val(cfg) EXCEPT !.default_profile = selected_profile])
    /\ pc' = "authenticate"
    /\ UNCHANGED <<argv, args, path_exists, store, credentials, profiles, selected_profile,
                   auth_response, auth_call, proc, sigwinch, retval, raised, exit_code, stdout, log,
                   calls>>

\* Variant: the configuration is read back after it was saved.
PersistConfig_reloaded ==
    /\ pc = "persist"
    /\ store' = [Val(cfg) EXCEPT !.default_profile = selected_profile]
    /\ cfg' = Some(store')
    /\ calls' = Count(Count(calls, "save"), "load")
    /\ pc' = "authenticate"
    /\ UNCHANGED <<argv, args, path_exists, credentials, profiles, selected_profile,
                   auth_response, auth_call, proc, sigwinch, retval, raised, exit_code, stdout,
                   log>>

\* Variant: the configuration is saved without the new default_profile.
PersistConfig_stale_default ==
    /\ pc = "persist"
    /\ store' = Val(cfg)
    /\ calls' = Count(calls, "save")
    /\ pc' = "authenticate"
    /\ UNCHANGED <<argv, args, path_exists, cfg, credentials, profiles, selected_profile,
                   auth_response, auth_call, proc, sigwinch, retval, raised, exit_code, stdout,
                   log>>

\* cfg.default_profile = selected_profile; config.save(cfg)
PersistConfig ==
    /\ pc = "persist"
    /\ cfg' = Some([Val(cfg) EXCEPT !.default_profile = selected_profile])
    /\ store' = Val(cfg')
    /\ calls' = Count(calls, "save")
    /\ pc' = "authenticate"
    /\ UNCHANGED <<argv, args, path_exists, credentials, profiles, selected_profile,
                   auth_response, auth_call, proc, sigwinch, retval, raised, exit_code, stdout, log>>

\* What _run hands to authenticate_to: the host and the credentials.
AuthArguments(host, creds) == [host |-> host, credentials |-> creds]

\* authenticate_to: the intent is logged and the authenticator is started.
authenticate_to ==
    /\ pc = "authenticate"
    /\ log' = Logged("info", "Authenticating to VPN endpoint")
    /\ auth_call' = Some(AuthArguments(Val(selected_profile), credentials))
    /\ calls' = Count(calls, "authenticate")
    /\ pc' = "authenticating"
    /\ UNCHANGED <<argv, args, path_exists, store, cfg, credentials, profiles, selected_profile,
                   auth_response, proc, sigwinch, retval, raised, exit_code, stdout>>

\* The await of the authentication returns an AuthResponse.
authenticated ==
    /\ pc = "authenticating"
    /\ \E response \in AuthResponses : auth_response' = Some(response)
    /\ pc' = "authenticated"
    /\ UNCHANGED <<argv, args, path_exists, store, cfg, credentials, profiles, selected_profile,
                   auth_call, proc, sigwinch, retval, raised, exit_code, stdout, log, calls>>

\* Variant: the failure is recorded but _run goes on with an empty response.
authentication_failed_ignored ==
    /\ pc = "authenticating"
    /\ \E exc \in AuthFailures : raised' = Some(exc)
    /\ auth_response' = Some([session_token |-> "", server_cert_hash |-> ""])
    /\ pc' = "authenticated"
    /\ UNCHANGED <<argv, args, path_exists, store, cfg, credentials, profiles,
                   selected_profile, auth_call, proc, sigwinch, retval, exit_code, stdout, log,
                   calls>>

\* The await of the authentication raises.
authentication_failed ==
    /\ pc = "authenticating"
    /\ \E exc \in AuthFailures : raised' = Some(exc)
    /\ pc' = "run_except"
    /\ UNCHANGED <<argv, args, path_exists, store, cfg, credentials, profiles, selected_profile,
                   auth_response, auth_call, proc, sigwinch, retval, exit_code, stdout, log, calls>>

\* Variant: the headend is built from the address alone, without the user group.
HeadlessDocument_address_only(response, host) ==
    [session_token |-> response.session_token,
     server_cert_hash |-> response.server_cert_hash,
     headend |-> vpn_url(HostProfile(host.address, ""))]

\* auth_response.asdict() with the "headend" entry added.
HeadlessDocument(response, host) ==
    [session_token |-> response.session_token,
     server_cert_hash |-> response.server_cert_hash,
     headend |-> vpn_url(host)]

headless ==
    /\ pc = "authenticated"
    /\ args.headless
    /\ log' = Logged("warning", "Exiting after login, as requested")
    /\ stdout' = Append(stdout, HeadlessDocument(Val(auth_response), Val(selected_profile)))
    /\ retval' = Some(0)
    /\ pc' = "run_except"
    /\ UNCHANGED <<argv, args, path_exists, store, cfg, credentials, profiles, selected_profile,
                   auth_response, auth_call, proc, sigwinch, raised, exit_code, calls>>

\* ------------------------------------------------------ run_openconnect
\* Variant: the session token is handed over as an argument.
CommandLine_cookie_argument(auth_info, host, oc_args) ==
    <<"sudo", "openconnect", "--cookie", auth_info.session_token, "--servercert",
      auth_info.server_cert_hash>> \o oc_args \o <<vpn_url(host)>>

\* The argument list create_subprocess_exec receives.
CommandLine(auth_info, host, oc_args) ==
    <<"sudo", "openconnect", "--cookie-on-stdin", "--servercert",
      auth_info.server_cert_hash>> \o oc_args \o <<vpn_url(host)>>

\* f"{auth_info.session_token}\n".encode()
TokenLine(auth_info) == auth_info.session_token \o "\n"

\* create_subprocess_exec starts the child with a pipe as its input stream.
create_subprocess_exec ==
    /\ pc = "authenticated"
    /\ ~args.headless
    /\ proc' = [proc EXCEPT
                  !.started = TRUE,
                  !.command_line =
                      CommandLine(Val(auth_response), Val(selected_profile),
                                  args.openconnect_args)]
    /\ calls' = Count(calls, "spawn")
    /\ pc' = "write"
    /\ UNCHANGED <<argv, args, path_exists, store, cfg, credentials, profiles, selected_profile,
                   auth_response, auth_call, sigwinch, retval, raised, exit_code, stdout, log>>

\* create_subprocess_exec fails: the binary is missing or not executable.
launch_failed ==
    /\ pc = "authenticated"
    /\ ~args.headless
    /\ raised' = Some("FileNotFoundError")
    /\ calls' = Count(calls, "spawn")
    /\ pc' = "run_except"
    /\ UNCHANGED <<argv, args, path_exists, store, cfg, credentials, profiles, selected_profile,
                   auth_response, auth_call, proc, sigwinch, retval, exit_code, stdout, log>>

\* The effect of the launcher's write on the child's input stream, which
\* holds the byte strings written to it in order.
Written(p, auth_info) == [p EXCEPT !.stdin = Append(@, TokenLine(auth_info))]

\* proc.stdin.write(...)
stdin_write ==
    /\ pc = "write"
    /\ proc' = Written(proc, Val(auth_response))
    /\ pc' = "drain"
    /\ UNCHANGED <<argv, args, path_exists, store, cfg, credentials, profiles, selected_profile,
                   auth_response, auth_call, sigwinch, retval, raised, exit_code, stdout, log, calls>>

\* The effect of await proc.stdin.drain(): the buffer is flushed, the stream
\* stays open.
Drained(p) == [p EXCEPT !.stdin_flushed = TRUE]

stdin_drain ==
    /\ pc = "drain"
    /\ proc' = Drained(proc)
    /\ pc' = "wait"
    /\ UNCHANGED <<argv, args, path_exists, store, cfg, credentials, profiles, selected_profile,
                   auth_response, auth_call, sigwinch, retval, raised, exit_code, stdout, log, calls>>

\* await proc.wait() begins.
proc_wait ==
    /\ pc = "wait"
    /\ proc' = [proc EXCEPT !.waiting = TRUE]
    /\ pc' = "waiting"
    /\ UNCHANGED <<argv, args, path_exists, store, cfg, credentials, profiles, selected_profile,
                   auth_response, auth_call, sigwinch, retval, raised, exit_code, stdout, log, calls>>

\* Variant: run_openconnect returns what proc.wait() returned.
LauncherResult_propagated(status) == Some(status)

\* What run_openconnect, and with it _run, returns once the child ended with
\* `status`: the result of proc.wait() is dropped.
LauncherResult(status) == None

\* The child terminates, proc.wait() returns its status.
child_exited ==
    /\ pc = "waiting"
    /\ \E status \in {0, 1} :
         /\ proc' = [proc EXCEPT !.waiting = FALSE, !.status = Some(status)]
         /\ retval' = LauncherResult(status)
    /\ pc' = "run_except"
    /\ UNCHANGED <<argv, args, path_exists, store, cfg, credentials, profiles, selected_profile,
                   auth_response, auth_call, sigwinch, raised, exit_code, stdout, log, calls>>

\* The points where _run is suspended on the event loop.
SuspensionPoints == {"selecting", "authenticating", "drain", "waiting"}

\* Variant: the interrupt is noted but _run stays where it was suspended.
KeyboardInterrupt_resumed ==
    /\ pc \in SuspensionPoints
    /\ raised' = Some("KeyboardInterrupt")
    /\ UNCHANGED <<pc, argv, args, path_exists, store, cfg, credentials, profiles,
                   selected_profile, auth_response, auth_call, proc, sigwinch, retval,
                   exit_code, stdout, log, calls>>

\* An interrupt arrives while _run is suspended.
KeyboardInterrupt ==
    /\ pc \in SuspensionPoints
    /\ raised' = Some("KeyboardInterrupt")
    /\ pc' = "run_except"
    /\ UNCHANGED <<argv, args, path_exists, store, cfg, credentials, profiles, selected_profile,
                   auth_response, auth_call, proc, sigwinch, retval, exit_code, stdout, log, calls>>

\* ------------------------------------------- app.run's handlers, sys.exit
\* The log line of each except clause of run.
HandlerLog(exc) ==
    CASE exc = "KeyboardInterrupt" -> [level |-> "warning", msg |-> "CTRL-C pressed, exiting"]
      [] exc = "Terminated" ->
           [level |-> "warning", msg |-> "Browser window terminated, exiting"]
      [] exc = "AuthResponseError" ->
           [level |-> "error", msg |-> "Required attributes not found in response"]
      [] exc = "HTTPError" -> [level |-> "error", msg |-> "Request error"]

\* What run returns after an except clause handled `exc`.
HandlerResult(exc) == None

\* run_until_complete returns or raises; run returns or lets the exception go.
run_except ==
    /\ pc = "run_except"
    /\ IF raised = None
       THEN /\ pc' = "sys_exit"
            /\ UNCHANGED <<retval, log, exit_code>>
       ELSE IF Val(raised) \in HandledExceptions
       THEN /\ log' = Append(log, HandlerLog(Val(raised)))
            /\ retval' = HandlerResult(Val(raised))
            /\ pc' = "sys_exit"
            /\ UNCHANGED exit_code
       ELSE /\ exit_code' = Some(ExitUnhandled)
            /\ pc' = "done"
            /\ UNCHANGED <<retval, log>>
    /\ UNCHANGED <<argv, args, path_exists, store, cfg, credentials, profiles, selected_profile,
                   auth_response, auth_call, proc, sigwinch, raised, stdout, calls>>

\* sys.exit(v): None is status 0, an integer is the status.
ExitStatus(v) == IF v = None THEN Some(0) ELSE v

sys_exit ==
    /\ pc = "sys_exit"
    /\ exit_code' = ExitStatus(retval)
    /\ pc' = "done"
    /\ UNCHANGED <<argv, args, path_exists, store, cfg, credentials, profiles, selected_profile,
                   auth_response, auth_call, proc, sigwinch, retval, raised, stdout, log, calls>>

Next ==
    \/ main
    \/ run
    \/ LoadConfig
    \/ ResolveCredentials
    \/ ResolveProfile
    \/ select_profile
    \/ selection_made
    \/ PersistConfig
    \/ authenticate_to
    \/ authenticated
    \/ authentication_failed
    \/ headless
    \/ create_subprocess_exec
    \/ launch_failed
    \/ stdin_write
    \/ stdin_drain
    \/ proc_wait
    \/ child_exited
    \/ KeyboardInterrupt
    \/ run_except
    \/ sys_exit

Spec == Init /\ [][Next]_vars

\* ====================================================================
\* Properties
\* ====================================================================
HasLog(level, msg) == \E i \in 1..Len(log) : log[i] = [level |-> level, msg |-> msg]

\* The run has left _run (it is in run's handlers, at sys.exit, or over).
Ended == pc \in {"run_except", "sys_exit", "done"}

\* C1: authentication is never attempted before config.save has completed:
\* whenever authenticate_to has been called, the configuration was saved
\* once and the store holds the resolved profile as its default.
C1_SaveBeforeAuthenticate ==
    calls.authenticate > 0 =>
        /\ calls.save = 1
        /\ selected_profile # None
        /\ store.default_profile = selected_profile

C1_Witness == pc = "authenticating" /\ calls.authenticate = 1 /\ calls.save = 1

\* C2: once authentication has failed (missing attributes, browser
\* terminated, HTTP error) the launcher is never invoked: no child is
\* started and the session token reaches no stream.
C2_AuthFailureNeverLaunches ==
    (raised # None /\ Val(raised) \in {"AuthResponseError", "Terminated", "HTTPError"}) =>
        /\ calls.spawn = 0
        /\ ~proc.started
        /\ proc.stdin = <<>>
        /\ stdout = <<>>
        /\ auth_response = None

C2_Witness ==
    /\ pc = "done"
    /\ raised = Some("AuthResponseError")
    /\ calls.authenticate = 1

\* C3: when the launcher starts waiting for the child, the child's input
\* stream holds exactly the session token followed by one newline and has
\* been closed.
C3_StdinClosedBeforeWait ==
    proc.waiting =>
        /\ proc.stdin = << Val(auth_response).session_token \o "\n" >>
        /\ proc.stdin_closed

\* C4: config.save is called exactly once in a run whose profile resolution
\* succeeded and not at all otherwise; never more than once.
C4_PersistedExactlyOnce ==
    /\ calls.save <= 1
    /\ (selected_profile # None /\ pc # "persist") => calls.save = 1
    /\ selected_profile = None => calls.save = 0
    /\ (Ended /\ calls.save = 0) =>
          \/ cfg = None
          \/ raised # None
          \/ retval \in {Some(17), Some(18)}

C4_Witness == pc = "done" /\ selected_profile # None /\ calls.save = 1

\* C5: when discovery was called and returned an empty collection, the run
\* ends with exit code 17 and reaches neither the selector, persistence,
\* authentication nor the launcher.
C5_EmptyDiscoveryEnds17 ==
    (calls.get_profiles > 0 /\ profiles = <<>>) =>
        /\ Ended
        /\ retval = Some(17)
        /\ raised = None
        /\ pc = "done" => exit_code = Some(17)
        /\ calls.select_profile = 0
        /\ calls.save = 0
        /\ calls.authenticate = 0
        /\ calls.spawn = 0
        /\ ~proc.started

C5_Witness ==
    /\ pc = "done"
    /\ calls.get_profiles = 1
    /\ profiles = <<>>
    /\ exit_code = Some(17)

\* The dialog completed without a selection.
SelectionCancelled ==
    /\ calls.select_profile > 0
    /\ pc # "selecting"
    /\ raised = None
    /\ selected_profile = None

\* C6: a cancelled selection ends the run with exit code 18, which no other
\* outcome of a run produces, and without persistence, authentication or
\* launch.
C6_NoSelectionExits18 ==
    /\ SelectionCancelled =>
          /\ Ended
          /\ retval = Some(18)
          /\ pc = "done" => exit_code = Some(18)
          /\ calls.save = 0
          /\ calls.authenticate = 0
          /\ calls.spawn = 0
          /\ ~proc.started
    /\ (pc = "done" /\ ~SelectionCancelled) => exit_code # Some(18)

C6_Witness == pc = "done" /\ SelectionCancelled /\ exit_code = Some(18)

\* The stages of _run that follow profile resolution.
AfterResolution ==
    {"persist", "authenticate", "authenticating", "authenticated", "write", "drain",
     "wait", "waiting"}

\* C7: with a stored default and neither the selector flag nor a server,
\* the resolved profile is the stored default, unchanged, and neither
\* discovery nor the selector is called, whether or not a profile path was
\* given.
C7_StoredDefaultWins ==
    (store.default_profile = Some(StoredProfile)
        /\ ~args.use_profile_selector /\ args.server = None) =>
        /\ calls.get_profiles = 0
        /\ calls.select_profile = 0
        /\ selected_profile \in {None, Some(StoredProfile)}
        /\ pc \in AfterResolution => selected_profile = Some(StoredProfile)

C7_Witness ==
    /\ pc = "persist"
    /\ args.profile_path # None
    /\ ~args.use_profile_selector
    /\ args.server = None
    /\ selected_profile = Some(StoredProfile)
    /\ calls.get_profiles = 0

\* C8: in headless mode, after a successful authentication, the run prints
\* the response fields with "headend" set to the profile's VPN URL, returns
\* 0 and never starts the child.
C8_HeadlessOutput ==
    (args.headless /\ auth_response # None) =>
        /\ calls.spawn = 0
        /\ ~proc.started
        /\ Ended =>
              /\ stdout = << [session_token |-> Val(auth_response).session_token,
                              server_cert_hash |-> Val(auth_response).server_cert_hash,
                              headend |-> vpn_url(Val(selected_profile))] >>
              /\ retval = Some(0)
              /\ raised = None
        /\ pc = "done" => exit_code = Some(0)

C8_Witness ==
    /\ pc = "done"
    /\ args.headless
    /\ auth_response # None
    /\ Len(stdout) = 1
    /\ Val(selected_profile).user_group = "staff"

\* The command line names a profile path or the selector together with a
\* server or a user group.
ConflictingInputs ==
    /\ argv.profile_path # None \/ argv.use_profile_selector
    /\ argv.server # None \/ argv.usergroup # ""

\* The orchestrator was never entered and no collaborator was called.
NothingStarted ==
    /\ pc \in {"main", "sys_exit", "done"}
    /\ calls = NoCalls
    /\ cfg = None
    /\ selected_profile = None
    /\ ~proc.started

C10_FatalAuthErrorsExitNonZero ==
    (pc = "done" /\ raised # None /\ Val(raised) \in {"AuthResponseError", "HTTPError"}) =>
        /\ \E i \in 1..Len(log) : log[i].level = "error"
        /\ exit_code # None
        /\ exit_code # Some(0)


\* C11: a run ended by Terminated (the authentication UI was closed) or by
\* KeyboardInterrupt is caught by run: its last log line is the warning of
\* that except clause and the process exits with status 0.
C11_CleanCancellationExitsZero ==
    (pc = "done" /\ raised # None /\ Val(raised) \in {"Terminated", "KeyboardInterrupt"}) =>
        /\ exit_code = Some(0)
        /\ Len(log) > 0
        /\ log[Len(log)].level = "warning"
        /\ log[Len(log)].msg =
              (IF raised = Some("Terminated")
               THEN "Browser window terminated, exiting"
               ELSE "CTRL-C pressed, exiting")

\* An interrupt during the handoff: the child runs and the launcher waits.
C11_Witness ==
    /\ pc = "done"
    /\ raised = Some("KeyboardInterrupt")
    /\ proc.started
    /\ proc.waiting
    /\ exit_code = Some(0)

\* C12: once the child has terminated, the run returns no value and exits
\* with status 0, whatever status the child ended with.
C12_ChildStatusNotPropagated ==
    proc.status # None =>
        /\ retval = None
        /\ raised = None
        /\ pc = "done" => exit_code = Some(0)

C12_Witness ==
    /\ pc = "done"
    /\ proc.status = Some(1)
    /\ exit_code = Some(0)


\* C13: in a run that reaches PersistConfig, the default_profile written to
\* the store is the resolved profile, whichever source resolved it (stored
\* default, interactive selection, explicit server), and that same profile
\* is passed to authentication and then to the headless output or the
\* launcher.
C13_ResolvedProfileEverywhere ==
    /\ selected_profile # None =>
          \/ selected_profile = Some(StoredProfile)
          \/ \E i \in 1..Len(profiles) : selected_profile = Some(profiles[i])
          \/ /\ args.server # None
             /\ selected_profile = Some(HostProfile(Val(args.server), args.usergroup))
    /\ calls.save > 0 =>
          /\ selected_profile # None
          /\ store.default_profile = selected_profile
          /\ Val(cfg).default_profile = selected_profile
    /\ auth_call # None => Val(auth_call).host = Val(selected_profile)
    /\ (auth_response # None /\ Len(stdout) > 0) =>
          stdout[1].headend = vpn_url(Val(selected_profile))
    /\ proc.started =>
          proc.command_line[Len(proc.command_line)] = vpn_url(Val(selected_profile))

\* A run that selected a profile interactively and launched the child.
C13_Witness ==
    /\ pc = "done"
    /\ calls.select_profile = 1
    /\ calls.save = 1
    /\ proc.started
    /\ store.default_profile = selected_profile
    /\ selected_profile = Some(DiscoveredProfile(2))


C15_InterruptUnwinds ==
    /\ [][raised = Some("KeyboardInterrupt") =>
            /\ Ended
            /\ Ended'
            /\ raised' = raised
            /\ calls' = calls
            /\ store' = store
            /\ cfg' = cfg
            /\ selected_profile' = selected_profile
            /\ auth_call' = auth_call
            /\ auth_response' = auth_response
            /\ proc' = proc
            /\ stdout' = stdout]_vars
    /\ []((raised = Some("KeyboardInterrupt") /\ calls.save > 0) =>
            store.default_profile = selected_profile)

\* Interrupted during authentication, after a selected profile was saved.
C15_Witness ==
    /\ pc = "done"
    /\ raised = Some("KeyboardInterrupt")
    /\ calls.save = 1
    /\ auth_response = None
    /\ store.default_profile = Some(DiscoveredProfile(1))


\* The dialog returned, with a profile or with a cancel (it was not left by
\* an interrupt).
SelectionCompleted ==
    /\ calls.select_profile > 0
    /\ pc # "selecting"
    /\ selected_profile # None \/ raised = None

\* C16: once the selection step has completed, with a profile or with a
\* cancel, no SIGWINCH handler is registered: none while persist,
\* authenticate or launch run, and none when the run ends.
C16_HandlerRemovedAfterSelection ==
    /\ SelectionCompleted => ~sigwinch
    /\ pc \in AfterResolution => ~sigwinch

C16_Witness ==
    /\ pc = "done"
    /\ SelectionCancelled
    /\ ~sigwinch


\* C17: the argument list the child is started with holds the
\* cookie-on-stdin flag, then the certificate-pinning flag immediately
\* followed by the response's server_cert_hash, then the pass-through
\* arguments in their original order, and the profile's VPN URL as its last
\* element; the session token is no element of it.
C17_ArgumentList ==
    proc.started =>
        LET cl == proc.command_line
            n == Len(cl)
        IN  /\ n >= 4
            /\ \E i \in 1..(n - 3) :
                 /\ cl[i] = "--cookie-on-stdin"
                 /\ cl[i + 1] = "--servercert"
                 /\ cl[i + 2] = Val(auth_response).server_cert_hash
                 /\ SubSeq(cl, i + 3, n - 1) = argv.openconnect_args
            /\ cl[n] = vpn_url(Val(selected_profile))
            /\ \A j \in 1..n : cl[j] # Val(auth_response).session_token

\* A child started with two different pass-through arguments.
C17_Witness ==
    /\ proc.started
    /\ Len(argv.openconnect_args) = 2
    /\ argv.openconnect_args[1] # argv.openconnect_args[2]
    /\ Val(selected_profile).user_group = "staff"


\* The profile built from the server and user group of the command line.
ExplicitProfile == Some(HostProfile(Val(argv.server), argv.usergroup))

\* C18: with an explicit server and no profile-selection flag, the resolved
\* profile is the HostProfile built from that server and user group, whether
\* or not a default is stored; neither discovery nor the selector is called,
\* and the explicit profile is what persistence stores as the default.
C18_ExplicitServerWins ==
    (argv.server # None /\ ~argv.use_profile_selector /\ argv.profile_path = None) =>
        /\ calls.get_profiles = 0
        /\ calls.select_profile = 0
        /\ selected_profile \in {None, ExplicitProfile}
        /\ pc \in AfterResolution => selected_profile = ExplicitProfile
        /\ calls.save > 0 => store.default_profile = ExplicitProfile

\* Resolved to the explicit server while the store still holds a default.
C18_Witness ==
    /\ pc = "persist"
    /\ store.default_profile = Some(StoredProfile)
    /\ argv.usergroup = "staff"
    /\ selected_profile = Some(HostProfile("gw.example.com", "staff"))


\* C19: the credentials passed to authentication are the stored ones
\* whenever the configuration holds credentials (a username on the command
\* line is then ignored and nothing is prompted); otherwise, with a username,
\* the credentials built from it and the prompted secret; otherwise none,
\* and the configuration's credentials stay unset.
C19_CredentialsPassed ==
    /\ []((cfg # None /\ pc # "resolve_credentials" /\ calls.save = 0) =>
            IF store.credentials # None
            THEN credentials = store.credentials /\ calls.getpass = 0
            ELSE IF argv.user # None
            THEN /\ credentials =
                       Some([username |-> Val(argv.user), password |-> "typed-secret"])
                 /\ calls.getpass = 1
            ELSE /\ credentials = None
                 /\ Val(cfg).credentials = None
                 /\ calls.getpass = 0)
    /\ [](auth_call # None =>
            /\ Val(auth_call).credentials = credentials
            /\ credentials = None => Val(cfg).credentials = None)
    /\ [][pc # "resolve_credentials" =>
            (credentials' = credentials /\ calls'.getpass = calls.getpass)]_vars

\* Stored credentials were passed although a username was given.
C19_Witness ==
    /\ pc = "authenticating"
    /\ argv.user # None
    /\ calls.getpass = 0
    /\ Val(auth_call).credentials = Some(StoredCredentials)


\* C20: for every command line and stored configuration that main lets
\* through, the resolver's "Cannot determine server address" branch is not
\* taken: when _run resolves the profile, the stored default applies, or the
\* selector or a profile path was given, or a server was given; ValueError
\* is never raised.
C20_AmbiguousTargetUnreachable ==
    /\ raised # Some("ValueError")
    /\ pc = "resolve_profile" =>
          \/ /\ Val(cfg).default_profile # None
             /\ ~(args.use_profile_selector \/ args.server \notin {None, Some("")})
          \/ args.use_profile_selector
          \/ args.profile_path \notin {None, Some("")}
          \/ args.server \notin {None, Some("")}

\* main let through a command line without any target and without a stored
\* default, having set the fallback profile directory.
C20_Witness ==
    /\ pc = "resolve_profile"
    /\ argv.profile_path = None
    /\ argv.server = None
    /\ Val(cfg).default_profile = None
    /\ args.profile_path = Some("/opt/cisco/anyconnect/profile")

====
